---- MODULE Spec2Model ----
(***************************************************************************)
(* Model of src/qr_code_generator.py: the QRCodeGenerator class (generate, *)
(* save) and the QRCodeApp click handlers (_on_generate, _on_save).        *)
(*                                                                         *)
(* The state is the fields of the one QRCodeApp object the program builds. *)
(* The external calls (the qrcode encoder, PIL's resize / ImageTk, PIL's   *)
(* Image.save, the Tk file dialog) are inputs of the actions: each either  *)
(* returns or raises, and the file dialog returns a path or "" on cancel.  *)
(* The variable ev records what the last call did to the outside world     *)
(* (dialogs shown, requests sent to the encoder, files written), and       *)
(* latest is a history variable: the image returned by the most recent     *)
(* generate() call that returned.                                          *)
(***************************************************************************)
EXTENDS Integers, Sequences, FiniteSets, TLC

VARIABLES box_size, border, error_correction, last_generated_image,
          photo, status_var, ev, latest

vars == <<box_size, border, error_correction, last_generated_image,
          photo, status_var, ev, latest>>

(* ------------------------------ bounds -------------------------------- *)

\* Longest text typed into the text box / passed to generate().
MaxLen == 1

(* --------------------------- program constants ------------------------ *)

DefaultBoxSize == 10
DefaultBorder == 4
SliderFrom == 5
SliderTo == 20
DisplaySize == 250
StatusPrefixLen == 30

DefaultLabel == "Medium (15%)"

\* qrcode.constants.ERROR_CORRECT_*, kept symbolic.
ERROR_CORRECT_L == "ERROR_CORRECT_L"
ERROR_CORRECT_M == "ERROR_CORRECT_M"
ERROR_CORRECT_Q == "ERROR_CORRECT_Q"
ERROR_CORRECT_H == "ERROR_CORRECT_H"

\* The class attribute ERROR_LEVELS: label -> level.
ERROR_LEVELS ==
    ("Low (7%)" :> ERROR_CORRECT_L) @@
    ("Medium (15%)" :> ERROR_CORRECT_M) @@
    ("Quartile (25%)" :> ERROR_CORRECT_Q) @@
    ("High (30%)" :> ERROR_CORRECT_H)

Labels == DOMAIN ERROR_LEVELS
Levels == {ERROR_LEVELS[l] : l \in Labels}

\* dict.get(key, default), as __init__ uses it.
ErrorLevelsGet(label, default) ==
    IF label \in DOMAIN ERROR_LEVELS THEN ERROR_LEVELS[label] ELSE default

(* ------------------------------- inputs ------------------------------- *)

\* A label that is not a key of ERROR_LEVELS.  error_var is a plain Tk
\* StringVar: the read-only combobox only offers the four keys, but the
\* variable itself holds whatever string it is set to.
UnknownLabel == "Ultra (50%)"
LabelInputs == Labels \cup {UnknownLabel}

\* Slider positions sampled at both ends of the scale (from_=5, to=20).
Sizes == {SliderFrom, SliderTo}

\* Characters a text is made of: a blank and a visible character.
Chars == {" ", "a"}
\* What str.strip() removes.
Whitespace == {" ", "\n"}

Texts == UNION {[1..n -> Chars] : n \in 0..MaxLen}

\* The file dialog's answers: "" when the user cancels.
Paths == {"qr.png"}
DialogAnswers == Paths \cup {""}

(* ------------------------------- values ------------------------------- *)

None == [kind |-> "None"]

NoExc == [kind |-> "NoExc"]
ValueError(m) == [kind |-> "ValueError", msg |-> m]
KeyError(key) == [kind |-> "KeyError", msg |-> key]
\* What the libraries raise: qrcode (e.g. DataOverflowError), PIL / ImageTk
\* in the preview step, PIL's Image.save (OSError).
EncoderError == [kind |-> "EncoderError", msg |-> "encoder failed"]
PreviewError == [kind |-> "PreviewError", msg |-> "preview failed"]
WriteError == [kind |-> "OSError", msg |-> "write failed"]

NoDialog == [kind |-> "none"]
ShowWarning(m) == [kind |-> "showwarning", msg |-> m]
ShowError(m) == [kind |-> "showerror", msg |-> m]
ShowInfo(m) == [kind |-> "showinfo", msg |-> m]

(* ------------------------------ str.strip ----------------------------- *)

RECURSIVE lstrip(_)
lstrip(s) ==
    IF s = <<>> THEN <<>>
    ELSE IF Head(s) \in Whitespace THEN lstrip(Tail(s)) ELSE s

RECURSIVE rstrip(_)
rstrip(s) ==
    IF s = <<>> THEN <<>>
    ELSE IF s[Len(s)] \in Whitespace THEN rstrip(SubSeq(s, 1, Len(s) - 1))
    ELSE s

strip(s) == rstrip(lstrip(s))

\* s[:n]
Prefix(s, n) == SubSeq(s, 1, IF Len(s) < n THEN Len(s) ELSE n)

\* text_input.get("1.0", tk.END): the typed text and Tk's final newline.
TextGet(text) == text \o <<"\n">>

(* ------------------------- external libraries ------------------------- *)
(* An external call returns or raises; which, the program cannot tell     *)
(* beforehand.  Each is modelled by the set of results it can have.       *)

\* qrcode.QRCode(version=None, error_correction=..., box_size=..., border=...)
\* followed by add_data(data): the request the encoder is given.  version
\* None together with make(fit=True) leaves the version to the encoder.
QRCode(data, ec, bs, bd) ==
    [kind |-> "QRCode", version |-> None, fit |-> TRUE,
     error_correction |-> ec, box_size |-> bs, border |-> bd, data |-> data]

\* qr.make_image(fill_color, back_color): the image of a request, at the
\* encoder's own resolution.
make_image(req, fill_color, back_color) ==
    [kind |-> "PilImage", data |-> req.data,
     error_correction |-> req.error_correction,
     box_size |-> req.box_size, border |-> req.border,
     fill_color |-> fill_color, back_color |-> back_color]

\* qr.make(fit=True); qr.make_image(...): raises (the data do not fit the
\* largest version, say) or returns the image.
Encode(req, fill_color, back_color) ==
    {[exc |-> EncoderError, img |-> None],
     [exc |-> NoExc, img |-> make_image(req, fill_color, back_color)]}

\* qr_image.get_image().resize((w, h), NEAREST): a new image, the argument
\* is left as it is.
resize(img, w, h) ==
    [kind |-> "Resized", of |-> img, width |-> w, height |-> h]

\* ImageTk.PhotoImage(image)
PhotoImage(img) == [kind |-> "PhotoImage", image |-> img]

\* The display conversion of _on_generate: raises or returns the photo.
MakePhoto(qr_image) ==
    {[exc |-> PreviewError, photo |-> None],
     [exc |-> NoExc,
      photo |-> PhotoImage(resize(qr_image, DisplaySize, DisplaySize))]}

\* image.save(filepath): the write is attempted, and raises or returns.
ImageSave(img, filepath) ==
    {[exc |-> e, writes |-> <<[path |-> filepath, image |-> img]>>] :
        e \in {NoExc, WriteError}}

\* filedialog.asksaveasfilename(...)
asksaveasfilename == DialogAnswers

(* ------------------------------ status line --------------------------- *)

Status(msg, arg) == [msg |-> msg, arg |-> arg]
StatusReady == Status("Ready", <<>>)
StatusGenerated(data) ==
    Status("Generated QR code for: ", Prefix(data, StatusPrefixLen))
StatusError == Status("Error generating QR code", <<>>)
StatusSaved(filepath) == Status("Saved to: ", <<filepath>>)

(* ------------------------- what a call did ---------------------------- *)

\* The record of one call: the text it worked on (the data argument of
\* generate, the stripped text of the form), the label and the size it read
\* from the form ("" and 0 when it did not read them), the exception raised
\* (to the caller, or into the handler's except clause), the message box
\* shown, whether the file dialog was opened, the writes attempted, the
\* request handed to the encoder and the image generate() returned.
Event(op, data, label, size, exc, dialog, filedialog, writes, req, ret) ==
    [op |-> op, data |-> data, label |-> label, size |-> size, exc |-> exc,
     dialog |-> dialog, filedialog |-> filedialog, writes |-> writes,
     req |-> req, ret |-> ret]

NoEvent ==
    Event("__init__", <<>>, "", 0, NoExc, NoDialog, FALSE, <<>>, None, None)

(* --------------------------- QRCodeGenerator -------------------------- *)

\* Variant: the test forgets to strip.
IsBlank_nostrip(data) == data = <<>>

\* "if not data.strip()"
IsBlank(data) == strip(data) = <<>>

\* Variant: the image is returned but not stored.
StoreImage_skip(self, img) == self

\* Variant: only the first image is stored.
StoreImage_once(self, img) ==
    IF self.last_generated_image = None
    THEN [self EXCEPT !.last_generated_image = img]
    ELSE self

\* "self.last_generated_image = qr.make_image(...)"
StoreImage(self, img) == [self EXCEPT !.last_generated_image = img]

\* QRCodeGenerator.generate(data).  Each result: the object afterwards, the
\* exception raised (NoExc when it returns), the value returned and the
\* request given to the encoder.
generate(self, data) ==
    IF IsBlank(data)
    THEN {[self |-> self,
           exc |-> ValueError("Please enter text or URL to generate QR code"),
           ret |-> None, req |-> None]}
    ELSE LET req == QRCode(data, self.error_correction, self.box_size,
                           self.border)
         IN  {IF e.exc = NoExc
              THEN [self |-> StoreImage(self, e.img), exc |-> NoExc,
                    ret |-> e.img, req |-> req]
              ELSE [self |-> self, exc |-> e.exc, ret |-> None, req |-> req] :
                e \in Encode(req, "black", "white")}

\* Variant: no check that an image exists.
save_unchecked(self, filepath) ==
    ImageSave(self.last_generated_image, filepath)

\* QRCodeGenerator.save(filepath).  Each result: the exception raised and
\* the writes attempted.
save(self, filepath) ==
    IF self.last_generated_image = None
    THEN {[exc |-> ValueError("No QR code generated yet"), writes |-> <<>>]}
    ELSE ImageSave(self.last_generated_image, filepath)

(* ------------------------------ QRCodeApp ----------------------------- *)

\* The except clause of _on_generate: an error box with str(e), and the
\* status line.
GenerateFailed(self, data, label, size, e, req, ret) ==
    [self |-> [self EXCEPT !.status_var = StatusError],
     ev |-> Event("_on_generate", data, label, size, e, ShowError(e.msg),
                  FALSE, <<>>, req, ret)]

\* Variant: the rescaled copy is kept as the stored image.
Preview_overwrite(g, data, label, size) ==
    {IF p.exc # NoExc
     THEN GenerateFailed(g.self, data, label, size, p.exc, g.req, g.ret)
     ELSE [self |-> [g.self EXCEPT !.photo = p.photo,
                                   !.last_generated_image = p.photo.image,
                                   !.status_var = StatusGenerated(data)],
           ev |-> Event("_on_generate", data, label, size, NoExc, NoDialog,
                        FALSE, <<>>, g.req, g.ret)] :
        p \in MakePhoto(g.ret)}

\* The display step of _on_generate, reached when generate() returned g.ret.
Preview(g, data, label, size) ==
    {IF p.exc # NoExc
     THEN GenerateFailed(g.self, data, label, size, p.exc, g.req, g.ret)
     ELSE [self |-> [g.self EXCEPT !.photo = p.photo,
                                   !.status_var = StatusGenerated(data)],
           ev |-> Event("_on_generate", data, label, size, NoExc, NoDialog,
                        FALSE, <<>>, g.req, g.ret)] :
        p \in MakePhoto(g.ret)}

\* "self.error_correction = self.ERROR_LEVELS[self.error_var.get()]"
LookupLevel(label) ==
    IF label \in DOMAIN ERROR_LEVELS
    THEN [exc |-> NoExc, level |-> ERROR_LEVELS[label]]
    ELSE [exc |-> KeyError(label), level |-> None]

\* Variant: the slider is not read, the size of the last click is used.
TryGenerate_stale(self, data, label, size) ==
    LET l == LookupLevel(label)
    IN  IF l.exc # NoExc
        THEN {GenerateFailed(self, data, label, size, l.exc, None, None)}
        ELSE LET s2 == [self EXCEPT !.error_correction = l.level]
             IN  UNION {IF g.exc # NoExc
                        THEN {GenerateFailed(g.self, data, label, size,
                                             g.exc, g.req, g.ret)}
                        ELSE Preview(g, data, label, size) :
                            g \in generate(s2, data)}

\* The try block of _on_generate, data being the stripped text.
TryGenerate(self, data, label, size) ==
    LET s1 == [self EXCEPT !.box_size = size]
        l == LookupLevel(label)
    IN  IF l.exc # NoExc
        THEN {GenerateFailed(s1, data, label, size, l.exc, None, None)}
        ELSE LET s2 == [s1 EXCEPT !.error_correction = l.level]
             IN  UNION {IF g.exc # NoExc
                        THEN {GenerateFailed(g.self, data, label, size,
                                             g.exc, g.req, g.ret)}
                        ELSE Preview(g, data, label, size) :
                            g \in generate(s2, data)}

\* QRCodeApp._on_generate with the form holding text, label and size.
on_generate(self, text, label, size) ==
    LET data == strip(TextGet(text))
    IN  IF data = <<>>
        THEN {[self |-> self,
               ev |-> Event("_on_generate", data, "", 0, NoExc,
                            ShowWarning("Please enter text or URL"), FALSE,
                            <<>>, None, None)]}
        ELSE TryGenerate(self, data, label, size)

\* Variant: a failed write is attempted once more.
SaveTo_retry(self, filepath) ==
    UNION {IF s.exc = NoExc
           THEN {[self |-> [self EXCEPT !.status_var = StatusSaved(filepath)],
                  ev |-> Event("_on_save", <<>>, "", 0, NoExc,
                               ShowInfo("QR code saved to"), TRUE, s.writes,
                               None, None)]}
           ELSE {[self |-> self,
                  ev |-> Event("_on_save", <<>>, "", 0, t.exc,
                               IF t.exc = NoExc
                               THEN ShowInfo("QR code saved to")
                               ELSE ShowError(t.exc.msg),
                               TRUE, s.writes \o t.writes, None, None)] :
                    t \in save(self, filepath)} :
        s \in save(self, filepath)}

\* The "if filepath:" block of _on_save.
SaveTo(self, filepath) ==
    {IF s.exc = NoExc
     THEN [self |-> [self EXCEPT !.status_var = StatusSaved(filepath)],
           ev |-> Event("_on_save", <<>>, "", 0, NoExc,
                        ShowInfo("QR code saved to"), TRUE, s.writes, None,
                        None)]
     ELSE [self |-> self,
           ev |-> Event("_on_save", <<>>, "", 0, s.exc, ShowError(s.exc.msg),
                        TRUE, s.writes, None, None)] :
        s \in save(self, filepath)}

\* QRCodeApp._on_save.
on_save(self) ==
    IF self.last_generated_image = None
    THEN {[self |-> self,
           ev |-> Event("_on_save", <<>>, "", 0, NoExc,
                        ShowWarning("Generate a QR code first before saving"),
                        FALSE, <<>>, None, None)]}
    ELSE UNION {IF filepath = ""
                THEN {[self |-> self,
                       ev |-> Event("_on_save", <<>>, "", 0, NoExc, NoDialog,
                                    TRUE, <<>>, None, None)]}
                ELSE SaveTo(self, filepath) :
                    filepath \in asksaveasfilename}

(* ------------------------------ state machine ------------------------- *)

\* The object as a record.
Self ==
    [box_size |-> box_size, border |-> border,
     error_correction |-> error_correction,
     last_generated_image |-> last_generated_image,
     photo |-> photo, status_var |-> status_var]

\* The history variable after a call: the image generate() returned, if it
\* returned one.
Returned(e) == IF e.ret # None THEN e.ret ELSE latest

\* QRCodeApp(): QRCodeGenerator.__init__ with its defaults, then the
\* widgets (no preview image, status "Ready").
Init ==
    /\ box_size = DefaultBoxSize
    /\ border = DefaultBorder
    /\ error_correction = ErrorLevelsGet(DefaultLabel, ERROR_CORRECT_M)
    /\ last_generated_image = None
    /\ photo = None
    /\ status_var = StatusReady
    /\ ev = NoEvent
    /\ latest = None

\* A click on "Generate QR Code".
OnGenerate ==
    \E text \in Texts, label \in LabelInputs, size \in Sizes :
        \E r \in on_generate(Self, text, label, size) :
            /\ box_size' = r.self.box_size
            /\ border' = r.self.border
            /\ error_correction' = r.self.error_correction
            /\ last_generated_image' = r.self.last_generated_image
            /\ photo' = r.self.photo
            /\ status_var' = r.self.status_var
            /\ ev' = r.ev
            /\ latest' = Returned(r.ev)

\* A click on "Save Image".
OnSave ==
    \E r \in on_save(Self) :
        /\ box_size' = r.self.box_size
        /\ border' = r.self.border
        /\ error_correction' = r.self.error_correction
        /\ last_generated_image' = r.self.last_generated_image
        /\ photo' = r.self.photo
        /\ status_var' = r.self.status_var
        /\ ev' = r.ev
        /\ latest' = Returned(r.ev)

\* A direct call of generate(data) on the object.
Generate ==
    \E data \in Texts :
        \E r \in generate(Self, data) :
            /\ box_size' = r.self.box_size
            /\ border' = r.self.border
            /\ error_correction' = r.self.error_correction
            /\ last_generated_image' = r.self.last_generated_image
            /\ photo' = r.self.photo
            /\ status_var' = r.self.status_var
            /\ ev' = Event("generate", data, "", 0, r.exc, NoDialog, FALSE,
                           <<>>, r.req, r.ret)
            /\ latest' = Returned(ev')

\* A direct call of save(filepath) on the object.
Save ==
    \E filepath \in Paths :
        \E r \in save(Self, filepath) :
            /\ ev' = Event("save", <<>>, "", 0, r.exc, NoDialog, FALSE,
                           r.writes, None, None)
            /\ UNCHANGED <<box_size, border, error_correction,
                           last_generated_image, photo, status_var, latest>>

\* The class in use: the window's two buttons, and generate() and save()
\* called on the object directly.
Next == OnGenerate \/ OnSave \/ Generate \/ Save

Spec == Init /\ [][Next]_vars

\* The program as run (app.run()): only the two buttons act.
NextGui == OnGenerate \/ OnSave

SpecGui == Init /\ [][NextGui]_vars

(* ------------------------------- claims ------------------------------- *)

\* A text made of whitespace only (the empty text included).
WhitespaceOnly(t) == \A i \in 1..Len(t) : t[i] \in Whitespace

IsSaveCall == ev.op \in {"save", "_on_save"}

\* The preview shows the stored image (or neither exists).
PreviewShowsStored ==
    IF last_generated_image = None
    THEN photo = None
    ELSE photo = PhotoImage(resize(last_generated_image, DisplaySize,
                                   DisplaySize))

\* C1: while no image has been generated (last_generated_image is None), a
\* save attempt is a reported precondition failure and writes nothing:
\* save() raises ValueError with no write attempted, _on_save shows a
\* warning without opening the file dialog or writing.
C1_SaveWithoutImageWritesNothing ==
    (IsSaveCall /\ last_generated_image = None) =>
        /\ ev.writes = <<>>
        /\ ev.filedialog = FALSE
        /\ ev.op = "save" =>
              ev.exc = ValueError("No QR code generated yet")
        /\ ev.op = "_on_save" =>
              /\ ev.exc = NoExc
              /\ ev.dialog =
                    ShowWarning("Generate a QR code first before saving")

\* C1 witness: after a failed generate and before any image exists, the
\* Save button was clicked and answered with the warning.
C1_Witness ==
    /\ ev.op = "_on_save"
    /\ last_generated_image = None
    /\ status_var = StatusError
    /\ ev.dialog.kind = "showwarning"

\* C2: generate() on a text that is empty after trimming raises ValueError
\* (InvalidInput), hands nothing to the encoder and leaves the stored image
\* as it was; the Generate button on such a text changes nothing (stored
\* image, module size, error-correction level, preview, status) and shows a
\* warning.
C2_BlankInputRejected ==
    [][/\ (ev'.op = "generate" /\ WhitespaceOnly(ev'.data)) =>
             /\ ev'.exc.kind = "ValueError"
             /\ ev'.req = None
             /\ last_generated_image' = last_generated_image
       /\ (ev'.op = "_on_generate" /\ ev'.data = <<>>) =>
             /\ ev'.dialog.kind = "showwarning"
             /\ ev'.req = None
             /\ UNCHANGED <<last_generated_image, box_size, border,
                            error_correction, photo, status_var>>]_vars

\* C2 witness: generate() was called on a blank, non-empty text while an
\* image was stored.
C2_Witness ==
    /\ ev.op = "generate"
    /\ ev.data = <<" ">>
    /\ ev.exc.kind = "ValueError"
    /\ last_generated_image # None

C4_Original ==
    [][(ev'.op = "_on_generate" /\ ev'.dialog # NoDialog) =>
          /\ last_generated_image' = last_generated_image
          /\ photo' = photo
          /\ PreviewShowsStored']_vars

\* C5: every generate() that returns stores the image it produced in place
\* of any earlier one, the image of a Generate click is built from the text,
\* level and size read at that click, and a save writes the image of the
\* most recent generate() that returned, never an older one.
C5_SaveWritesLatestImage ==
    /\ last_generated_image = latest
    /\ (ev.op = "_on_generate" /\ ev.ret # None) =>
          ev.ret = make_image(QRCode(ev.data, ERROR_LEVELS[ev.label],
                                     ev.size, DefaultBorder),
                              "black", "white")
    /\ ev.writes # <<>> =>
          /\ Len(ev.writes) = 1
          /\ ev.writes[1].image = latest

\* C5 witness: a save wrote the stored image while the preview still shows
\* another, earlier generated image.
C5_Witness ==
    /\ IsSaveCall
    /\ ev.writes # <<>>
    /\ photo # None
    /\ photo.image.of # ev.writes[1].image
    /\ ev.writes[1].image = last_generated_image

\* C6: after a successful Generate click the stored image is the unscaled
\* image the encoder returned, the preview is a separate 250x250 copy of
\* it, and a save writes the stored original-resolution image.
C6_PreviewLeavesStoredImage ==
    /\ (ev.op = "_on_generate" /\ ev.dialog = NoDialog) =>
          /\ last_generated_image = ev.ret
          /\ last_generated_image.kind = "PilImage"
          /\ photo = PhotoImage(resize(ev.ret, DisplaySize, DisplaySize))
          /\ photo.image # last_generated_image
    /\ ev.writes # <<>> =>
          /\ ev.writes[1].image.kind = "PilImage"
          /\ ev.writes[1].image = last_generated_image

\* C6 witness: a save wrote the image of a previewed generate.
C6_Witness ==
    /\ ev.op = "_on_save"
    /\ ev.writes # <<>>
    /\ photo # None
    /\ photo.image.of = ev.writes[1].image

\* C7: a Save click while an image is stored leaves the stored image, the
\* preview, the module size and the error-correction level as they were,
\* whether the write succeeds, fails or the dialog is cancelled; it attempts
\* at most one write, of the stored image, and none on cancel.
C7_SaveLeavesGenerated ==
    [][(ev'.op = "_on_save" /\ last_generated_image # None) =>
          /\ UNCHANGED <<last_generated_image, photo, box_size,
                         error_correction, border>>
          /\ ev'.filedialog
          /\ Len(ev'.writes) <= 1
          /\ ev'.writes # <<>> =>
                ev'.writes[1].image = last_generated_image
          /\ ev'.dialog = NoDialog => ev'.writes = <<>>]_vars

\* C7 witness: a Save click whose write failed, with the image still there.
C7_Witness ==
    /\ ev.op = "_on_save"
    /\ ev.exc = WriteError
    /\ Len(ev.writes) = 1
    /\ last_generated_image # None

C9_Original ==
    /\ (ev.op = "_on_generate" /\ ev.exc # NoExc) =>
          /\ ev.dialog = ShowError(ev.exc.msg)
          /\ status_var = StatusError
    /\ (ev.op = "_on_save" /\ ev.exc # NoExc) =>
          /\ ev.dialog = ShowError(ev.exc.msg)
          /\ status_var \notin {StatusReady, StatusError}
          /\ status_var.msg \notin {"Generated QR code for: ", "Saved to: "}

\* C10: every request a Generate click hands to the encoder has a text that
\* is non-empty and trimmed, the level of the label read at the click (one
\* of the four), the slider value read at the click (in [5,20]) as module
\* size, border 4, and leaves the version to the encoder.
C10_RequestWellFormed ==
    (ev.op = "_on_generate" /\ ev.req # None) =>
        /\ ev.req.data = ev.data
        /\ ev.data # <<>>
        /\ ev.data[1] \notin Whitespace
        /\ ev.data[Len(ev.data)] \notin Whitespace
        /\ ev.label \in Labels
        /\ ev.req.error_correction \in Levels
        /\ ev.req.error_correction = ERROR_LEVELS[ev.label]
        /\ ev.size \in SliderFrom..SliderTo
        /\ ev.req.box_size = ev.size
        /\ ev.req.border = DefaultBorder
        /\ ev.req.version = None
        /\ ev.req.fit

\* C10 witness: a Generate click handed the encoder a request with a level
\* and a size other than the defaults (and the encoder raised).
C10_Witness ==
    /\ ev.op = "_on_generate"
    /\ ev.req # None
    /\ ev.exc = EncoderError
    /\ ev.label = "High (30%)"
    /\ ev.size = SliderTo

====
